---- MODULE Spec2Model ----
(***************************************************************************)
(* A model of sqlite3_wrapper.Database (src/sqlite3_wrapper.py, 2.3.0):    *)
(* the identifier and foreign-key validation of the constructor, the       *)
(* selection normalizer, the statement builders and the two-statement      *)
(* upsert, over a small model of the SQLite engine they talk to.           *)
(*                                                                         *)
(* Strings the code inspects character by character (table and column      *)
(* names) are sequences of one-character strings.  Python's None and SQL's *)
(* NULL are the value None; every other value is a positive integer.       *)
(***************************************************************************)
EXTENDS Integers, Sequences, FiniteSets, TLC

VARIABLES
    tables,   \* self.tables: the database structure, <<table_name, columns>> pairs
    master,   \* the engine's catalog (sqlite_master): names of the tables that exist
    data,     \* the engine's rows: data[t] is the set of rows of table t
    last,     \* the last call of the API: its arguments, the SQL it sent, its outcome
    step,     \* the number of calls made, in the specifications that make a fixed
              \* number of them; 0 in Spec, where any call may follow any call
    disk,     \* the database file: the catalog and the rows as last committed
    in_transaction,  \* the connections whose conn.in_transaction is true
    inflight  \* SpecRace: each writer's place in its put, and what its probe saw

vars == <<tables, master, data, last, step, disk, in_transaction, inflight>>

----------------------------------------------------------------------------
(* Bounds of the model.                                                    *)

MaxNameLen == 2    \* longest identifier the constructor is tried on
MaxCols    == 2    \* most column definitions of a tried database structure

----------------------------------------------------------------------------
(* Characters and the two regular expressions of __init__.                 *)

LowerAlpha == <<"a","b","c","d","e","f","g","h","i","j","k","l","m",
                "n","o","p","q","r","s","t","u","v","w","x","y","z">>
UpperAlpha == <<"A","B","C","D","E","F","G","H","I","J","K","L","M",
                "N","O","P","Q","R","S","T","U","V","W","X","Y","Z">>
Digits     == {"0","1","2","3","4","5","6","7","8","9"}

\* Characters outside ASCII are written by their code point: e-acute is a
\* letter to \w (a str pattern is a Unicode pattern); the Kelvin sign and the
\* long s also match [a-z] under re.IGNORECASE.
UnicodeWord     == {"U+00E9", "U+212A", "U+017F"}
UnicodeCaseFold == {"U+212A", "U+017F"}

IsLetter(c) == \E i \in 1..26 : LowerAlpha[i] = c \/ UpperAlpha[i] = c

\* str.lower() on one character
LowerChar(c) ==
    IF \E i \in 1..26 : UpperAlpha[i] = c
    THEN LowerAlpha[CHOOSE i \in 1..26 : UpperAlpha[i] = c]
    ELSE c

\* str.lower()
lower(s) == [i \in 1..Len(s) |-> LowerChar(s[i])]

\* [a-z_] under re.IGNORECASE
IsFirstChar(c) == IsLetter(c) \/ c = "_" \/ c \in UnicodeCaseFold

\* \w
IsWordChar(c) == IsLetter(c) \/ c \in Digits \/ c = "_" \/ c \in UnicodeWord

\* $ after the first n characters of s: the end of s, or just before a
\* newline that ends s
AtDollar(s, n) == n = Len(s) \/ (n = Len(s) - 1 /\ s[Len(s)] = "\n")

\* self.safeNamePattern.match(name) != None, the pattern being [a-z_]\w*$
\* matched from the start of the name
safeNamePattern(name) ==
    \E n \in 1..Len(name) :
        /\ IsFirstChar(name[1])
        /\ \A i \in 2..n : IsWordChar(name[i])
        /\ AtDollar(name, n)

FKPrefix == <<"F","O","R","E","I","G","N"," ","K","E","Y"," ","(">>

NoMatch == <<"no match">>

\* foreignKeyPattern.match(key): group(1), or NoMatch.  The pattern
\* FOREIGN KEY \(([a-z_]\w*)\) is matched from the start of key, ignoring
\* case, and is not anchored at its end.
foreignKeyPattern(key) ==
    LET p == Len(FKPrefix)
        ends == {e \in (p + 1)..(Len(key) - 1) :
                    /\ IsFirstChar(key[p + 1])
                    /\ \A i \in (p + 2)..e : IsWordChar(key[i])
                    /\ key[e + 1] = ")"}
    IN  IF /\ Len(key) > p
           /\ lower(SubSeq(key, 1, p)) = lower(FKPrefix)
           /\ ends # {}
        THEN SubSeq(key, p + 1, CHOOSE e \in ends : TRUE)
        ELSE NoMatch

----------------------------------------------------------------------------
(* The assertions.  Each returns the kind of the exception it raises, or   *)
(* "ok".                                                                   *)

ROWID == <<"r","o","w","i","d">>

\* self.tables[table_name], in the structure ts
TableCols(ts, table_name) ==
    LET i == CHOOSE i \in 1..Len(ts) : ts[i][1] = table_name IN ts[i][2]

TableNamesOf(ts) == {ts[i][1] : i \in 1..Len(ts)}

_assert_safe_name(name) ==
    IF safeNamePattern(name) THEN "ok" ELSE "InvalidName"

_assert_table_in_database_structure(ts, table_name) ==
    IF table_name \in TableNamesOf(ts) THEN "ok" ELSE "TableNotInDatabase"

_assert_key_in_table(ts, table_name, key) ==
    LET cols == TableCols(ts, table_name) IN
    IF lower(key) = ROWID THEN "ok"
    ELSE IF \E i \in 1..Len(cols) : lower(cols[i][1]) = lower(key) THEN "ok"
    ELSE "KeyNotInTable"

\* The first outcome of a sequence of checks that is not "ok"
RECURSIVE FirstError(_)
FirstError(checks) ==
    IF checks = <<>> THEN "ok"
    ELSE IF Head(checks) # "ok" THEN Head(checks)
    ELSE FirstError(Tail(checks))

\* One turn of the inner loop of __init__: the column definition
\* (key, data_type) of table table_name
InitCheckColumn(ts, table_name, key) ==
    LET m == foreignKeyPattern(key) IN
    IF m # NoMatch
    THEN FirstError(<<_assert_key_in_table(ts, table_name, m), _assert_safe_name(m)>>)
    ELSE _assert_safe_name(key)

\* One turn of the outer loop of __init__
InitCheckTable(ts, t) ==
    LET cols == ts[t][2] IN
    FirstError(<<_assert_safe_name(ts[t][1])>>
               \o [i \in 1..Len(cols) |-> InitCheckColumn(ts, ts[t][1], cols[i][1])])

\* Database.__init__: the exception it raises, or "ok"
DatabaseInit(ts) == FirstError([t \in 1..Len(ts) |-> InitCheckTable(ts, t)])

----------------------------------------------------------------------------
(* Values, comparison types and the selection normalizer.                  *)

MaxVal == 2        \* data values are 1..MaxVal
MaxSel == 2        \* most entries of a selection dictionary

None   == 0        \* Python's None, SQL's NULL
Values == 0..MaxVal

EQ    == "="
NEQ   == "!="
GT    == ">"
GTEQ  == ">="
LT    == "<"
LTEQ  == "<="
EQUAL == EQ
VALID_COMPARISONS == {EQ, NEQ, GT, GTEQ, LT, LTEQ}

ASC  == <<"A","S","C">>
DESC == <<"D","E","S","C">>
VALID_SORTING == {ASC, DESC}

(* An entry k: v of a selection dictionary is [key, tup, n, v, c]: v is    *)
(* either a bare value (tup = FALSE) or a tuple of n items, the first      *)
(* being v and the second c.  A dictionary is the sequence of its entries  *)
(* in insertion order.                                                     *)
Bare(k, v)    == [key |-> k, tup |-> FALSE, n |-> 0, v |-> v, c |-> ""]
Pair(k, v, c) == [key |-> k, tup |-> TRUE,  n |-> 2, v |-> v, c |-> c]
Tuple1(k, v)     == [key |-> k, tup |-> TRUE, n |-> 1, v |-> v, c |-> ""]
Tuple3(k, v, c)  == [key |-> k, tup |-> TRUE, n |-> 3, v |-> v, c |-> c]

_assert_valid_comparison_type(comparison_type) ==
    IF comparison_type \in VALID_COMPARISONS THEN "ok" ELSE "InvalidComparisonType"

\* The comparison type an entry has after lines 145-153 (a bare value gets EQUAL)
WithComparison(e) == IF e.tup THEN e ELSE Pair(e.key, e.v, EQUAL)

\* Lines 155-158: NULLs are compared with IS / IS NOT
NullsAsIs(e) ==
    IF e.v = None
    THEN Pair(e.key, e.v, IF e.c = EQUAL THEN "IS" ELSE "IS NOT")
    ELSE e

\* One turn of the loop of _process_select_dict: what it raises, key checked first
ProcessEntryErrorMut(ts, table_name, e) ==
    FirstError(<<_assert_key_in_table(ts, table_name, e.key),
                 IF e.tup /\ e.n # 2 THEN "SyntaxError" ELSE "ok",
                 IF e.tup THEN _assert_valid_comparison_type(e.c) ELSE "ok">>)
\* One turn of the loop of _process_select_dict: what it raises
ProcessEntryError(ts, table_name, e) ==
    FirstError(<<IF e.tup /\ e.n # 2 THEN "SyntaxError" ELSE "ok",
                 IF e.tup /\ e.n = 2 THEN _assert_valid_comparison_type(e.c) ELSE "ok",
                 _assert_key_in_table(ts, table_name, e.key)>>)

\* _process_select_dict: [err, dict], dict being the returned dictionary
\* when err = "ok"
_process_select_dict(ts, table_name, select_dict_orig) ==
    LET n == Len(select_dict_orig) IN
    [err  |-> FirstError([i \in 1..n |->
                  ProcessEntryError(ts, table_name, select_dict_orig[i])]),
     dict |-> [i \in 1..n |-> NullsAsIs(WithComparison(select_dict_orig[i]))]]

----------------------------------------------------------------------------
(* The database structure the object is constructed with (modelled on the  *)
(* docstring of __init__ and on test()), and the arguments calls are       *)
(* tried with.                                                             *)

T    == <<"t">>
K    == <<"k">>
DATA == <<"d","a","t","a">>
ZZ   == <<"z","z">>       \* neither a table nor a column of the structure

Structure ==
    << <<T, << <<K, "TEXT">>,
               <<DATA, "INTEGER">>,
               <<FKPrefix \o K \o <<")">>, "REFERENCES u(x)">> >> >> >>

KeyArgs == {K, ROWID, ZZ}

\* Every entry the normalizer is tried on
AllEntries ==
    {Bare(k, v) : k \in KeyArgs, v \in Values}
    \cup {Pair(k, v, c) : k \in KeyArgs, v \in Values,
                          c \in {EQ, NEQ, LT, GTEQ, "~", "IS"}}
    \cup {Tuple1(k, 1) : k \in KeyArgs}
    \cup {Tuple3(k, 1, EQ) : k \in KeyArgs}

\* The dictionaries of at most MaxSel of the given entries (a dictionary has
\* no key twice)
DictsOf(entries) ==
    UNION {{d \in [1..n -> entries] :
               \A i, j \in 1..n : i # j => d[i].key # d[j].key} : n \in 0..MaxSel}

NoData == [x \in {} |-> {}]

Idle ==
    [op |-> "none", table |-> <<>>, sel |-> <<>>, put |-> <<>>, getl |-> <<>>,
     sort |-> [ctr |-> "none", mut |-> FALSE, items |-> <<>>], force |-> FALSE,
     sql |-> <<>>, err |-> "ok", norm |-> <<>>, ret |-> -1, recs |-> <<>>,
     flag |-> FALSE]

----------------------------------------------------------------------------
(* The normalizer alone: _process_select_dict is applied once, to a        *)
(* dictionary of AllEntries.                                               *)

InitSelect ==
    /\ tables = Structure
    /\ master = {}
    /\ data = NoData
    /\ last = Idle
    /\ step = 0
    /\ disk = [master |-> master, data |-> data]
    /\ in_transaction = {}
    /\ inflight = <<>>

ProcessSelectDict(table_name, select_dict) ==
    LET r == _process_select_dict(tables, table_name, select_dict) IN
    /\ last' = [Idle EXCEPT !.op = "_process_select_dict", !.table = table_name,
                            !.sel = select_dict, !.err = r.err,
                            !.norm = IF r.err = "ok" THEN r.dict ELSE <<>>]
    /\ UNCHANGED <<tables, master, data, disk, in_transaction>>

NextSelect ==
    /\ step = 0
    /\ step' = 1
    /\ UNCHANGED inflight
    /\ \E sel \in DictsOf(AllEntries) : ProcessSelectDict(T, sel)

SpecSelect == InitSelect /\ [][NextSelect]_vars

----------------------------------------------------------------------------
(* Properties of the normalizer, checked under SpecSelect.                 *)

Normalized == last.op = "_process_select_dict"

\* C4 (as claimed): in the dictionary _process_select_dict returns, an entry
\* whose value is None has the operator IS when the original operator was =
\* (or the value was bare), IS NOT when it was !=, and its original operator
\* when that was <, <=, > or >=; an entry whose value is not None keeps the
\* operator supplied (= for a bare value).
C4_NullOperatorAsClaimed ==
    (Normalized /\ last.err = "ok") =>
        \A i \in 1..Len(last.sel) :
            LET e    == last.sel[i]
                orig == IF e.tup THEN e.c ELSE "="
                out  == last.norm[i].c
            IN  IF e.v = None
                THEN CASE orig = "="  -> out = "IS"
                       [] orig = "!=" -> out = "IS NOT"
                       [] OTHER       -> out = orig
                ELSE out = orig

C6BadOperator(e) == e.tup /\ e.c \notin {"=", "!=", "<", "<=", ">", ">="}
C6BadKey(e)      == e.key \notin {K, DATA, ROWID}
C6InScope        == Normalized /\ \A i \in 1..Len(last.sel) :
                                     ~last.sel[i].tup \/ last.sel[i].n = 2
C6Offenders      == {i \in 1..Len(last.sel) :
                        C6BadOperator(last.sel[i]) \/ C6BadKey(last.sel[i])}

\* C6 (as claimed): a selection of bare values and (value, operator) pairs
\* fails with InvalidComparisonType if any pair has an operator outside
\* {=, !=, <, <=, >, >=}, fails with KeyNotInTable if any key is neither a
\* declared column nor rowid, and is accepted otherwise.
C6_RejectsAsClaimed ==
    C6InScope =>
        /\ (\E i \in 1..Len(last.sel) : C6BadOperator(last.sel[i]))
               => last.err = "InvalidComparisonType"
        /\ (\E i \in 1..Len(last.sel) : C6BadKey(last.sel[i]))
               => last.err = "KeyNotInTable"
        /\ C6Offenders = {} => last.err = "ok"

\* C6 (amended): such a selection is accepted iff no entry has a bad operator
\* or an undeclared key; otherwise it fails with the error of the first
\* offending entry in insertion order, InvalidComparisonType if that entry's
\* operator is bad (the operator is checked before the key) and
\* KeyNotInTable if only its key is.
C6_RejectsFirstOffender ==
    C6InScope =>
        IF C6Offenders = {} THEN last.err = "ok"
        ELSE LET i == CHOOSE i \in C6Offenders : \A j \in C6Offenders : i <= j
             IN  last.err = IF C6BadOperator(last.sel[i])
                            THEN "InvalidComparisonType" ELSE "KeyNotInTable"

\* C6 witness: a selection whose first entry has an undeclared key and whose
\* second entry has a bad operator was rejected with KeyNotInTable.
C6_Witness ==
    /\ C6InScope
    /\ Len(last.sel) = 2
    /\ C6BadKey(last.sel[1]) /\ ~C6BadOperator(last.sel[1])
    /\ C6BadOperator(last.sel[2])
    /\ last.err = "KeyNotInTable"

----------------------------------------------------------------------------
(* The constructor alone: a database structure of one table is drawn and   *)
(* Database.__init__ validates it once.                                    *)

NameChars == {"a", "1", "_", "-", "\n"}

\* The identifiers tried: every string of at most MaxNameLen of NameChars
NameArgs == UNION {[1..n -> NameChars] : n \in 0..MaxNameLen}

ForeignKey(c) == FKPrefix \o c \o <<")">>

\* The foreign-key clauses tried: of a column that may be declared (a), that
\* differs from one in case only (A), that is rowid, that is no identifier
\* (1); written in lower case; followed by more text
ForeignKeyArgs ==
    {ForeignKey(c) : c \in {<<"a">>, <<"A">>, <<"_">>, <<"1">>, ROWID}}
    \cup {lower(ForeignKey(<<"a">>)), lower(ForeignKey(<<"-">>)),
          ForeignKey(<<"a">>) \o <<";">>}

ColumnArgs ==
    UNION {[1..n -> {<<k, "TEXT">> : k \in NameArgs \cup ForeignKeyArgs}] :
              n \in 0..MaxCols}

StructureArgs == {<< <<t, cols>> >> : t \in NameArgs, cols \in ColumnArgs}

InitNew ==
    /\ tables \in StructureArgs
    /\ master = {}
    /\ data = NoData
    /\ last = Idle
    /\ step = 0
    /\ disk = [master |-> master, data |-> data]
    /\ in_transaction = {}
    /\ inflight = <<>>

\* Database(fname, database_structure)
New ==
    /\ last' = [Idle EXCEPT !.op = "__init__", !.err = DatabaseInit(tables)]
    /\ UNCHANGED <<tables, master, data, disk, in_transaction>>

NextNew ==
    /\ step = 0
    /\ step' = 1
    /\ UNCHANGED inflight
    /\ New

SpecNew == InitNew /\ [][NextNew]_vars

----------------------------------------------------------------------------
(* Properties of the constructor, checked under SpecNew.                   *)

AsciiLetters == {LowerAlpha[i] : i \in 1..26} \cup {UpperAlpha[i] : i \in 1..26}

\* The whole name matches ^[A-Za-z_][A-Za-z0-9_]*$, nothing after it
StrictName(name) ==
    /\ Len(name) >= 1
    /\ name[1] \in AsciiLetters \cup {"_"}
    /\ \A i \in 2..Len(name) : name[i] \in AsciiLetters \cup Digits \cup {"_"}

Constructed  == last.op = "__init__"
TheTable     == tables[1][1]
TheKeys      == [i \in 1..Len(tables[1][2]) |-> tables[1][2][i][1]]
IsClause(k)  == Len(k) >= Len(FKPrefix)
                  /\ lower(SubSeq(k, 1, Len(FKPrefix))) = lower(FKPrefix)
PlainKeys    == {TheKeys[i] : i \in {j \in 1..Len(TheKeys) : ~IsClause(TheKeys[j])}}
ClauseKeys   == {TheKeys[i] : i \in {j \in 1..Len(TheKeys) : IsClause(TheKeys[j])}}

\* C7 (as claimed): constructing a Database whose structure has no
\* foreign-key clause succeeds iff the table name and every column name
\* match ^[A-Za-z_][A-Za-z0-9_]*$ as a whole, and fails with InvalidName
\* otherwise.
C7_StrictNamesAsClaimed ==
    (Constructed /\ ClauseKeys = {}) =>
        last.err = IF \A n \in {TheTable} \cup PlainKeys : StrictName(n)
                   THEN "ok" ELSE "InvalidName"

\* The column a well-formed clause FOREIGN KEY (c) names
ClauseColumn(k) == SubSeq(k, Len(FKPrefix) + 1, Len(k) - 1)
WellFormedClause(k) ==
    /\ Len(k) > Len(FKPrefix) + 1
    /\ k[Len(k)] = ")"
    /\ StrictName(ClauseColumn(k))
DeclaredHere(c) == \E k \in PlainKeys : lower(k) = lower(c)

\* C8 (as claimed): when every identifier of the structure is valid and its
\* foreign-key clauses are of the form FOREIGN KEY (c), construction fails
\* with KeyNotInTable if some c is not a column declared in the same table,
\* and succeeds if every c is.
C8_ForeignKeyAsClaimed ==
    (/\ Constructed
     /\ \A n \in {TheTable} \cup PlainKeys : StrictName(n)
     /\ \A k \in ClauseKeys : WellFormedClause(k)) =>
        last.err = IF \A k \in ClauseKeys : DeclaredHere(ClauseColumn(k))
                   THEN "ok" ELSE "KeyNotInTable"

----------------------------------------------------------------------------
(* The engine: what sqlite3 does with a statement the wrapper sends.  A    *)
(* statement is its kind, the table, the column list, the WHERE predicates *)
(* <<column, operator>> (each rendered "column operator ?"), the ORDER BY  *)
(* pairs and the bound parameters.                                         *)

MaxRowid == 2      \* calls that would leave a row with a larger rowid are not tried

Stmt(kind, table, cols, where, order, params) ==
    [kind |-> kind, table |-> table, cols |-> cols, where |-> where,
     order |-> order, params |-> params]

Range(s) == {s[i] : i \in 1..Len(s)}

\* The columns of the table the CREATE TABLE statement of create_table makes:
\* the definitions that are not FOREIGN KEY constraints
EngineColumns(ts, table) ==
    {lower(c[1]) : c \in {x \in Range(TableCols(ts, table)) :
                             foreignKeyPattern(x[1]) = NoMatch}}

\* The value of column k in a row (column names are case-insensitive)
ColValue(row, k) == row[lower(k)]

\* Whether "a c ?" is true with ? bound to b: a comparison with NULL is not
\* true, IS and IS NOT compare NULLs as values
Compare(a, c, b) ==
    CASE c = "IS"     -> a = b
      [] c = "IS NOT" -> a # b
      [] a = None \/ b = None -> FALSE
      [] c = "="      -> a = b
      [] c = "!="     -> a # b
      [] c = "<"      -> a < b
      [] c = "<="     -> a <= b
      [] c = ">"      -> a > b
      [] c = ">="     -> a >= b

Matches(row, where, params) ==
    \A i \in 1..Len(where) : Compare(ColValue(row, where[i][1]), where[i][2], params[i])

\* ORDER BY: NULL sorts first
RECURSIVE OrderedBefore(_, _, _)
OrderedBefore(a, b, order) ==
    IF order = <<>> THEN TRUE
    ELSE LET x == ColValue(a, order[1][1])
             y == ColValue(b, order[1][1])
         IN  IF x = y THEN OrderedBefore(a, b, Tail(order))
             ELSE IF order[1][2] = DESC THEN x > y ELSE x < y

\* The sequences in which the engine may return the rows: in rowid order
\* without ORDER BY; with it, any order that respects it
RowSequences(rows, order) ==
    LET n == Cardinality(rows) IN
    {s \in [1..n -> rows] :
        /\ \A i, j \in 1..n : i # j => s[i] # s[j]
        /\ \A i \in 1..(n - 1) :
              IF order = <<>> THEN s[i][ROWID] < s[i + 1][ROWID]
              ELSE OrderedBefore(s[i], s[i + 1], order)}

Outcome(kind, m, d) ==
    [err |-> kind, master |-> m, data |-> d, rows |-> <<>>, rowcount |-> -1,
     lastrowid |-> 0]

MaxOf(S) == CHOOSE x \in S : \A y \in S : y <= x

\* The rowid of a row inserted without one
NewRowid(rows) == IF rows = {} THEN 1 ELSE MaxOf({r[ROWID] : r \in rows}) + 1

\* row with columns cols set to params
Assign(row, cols, params) ==
    [c \in DOMAIN row |->
        IF \E i \in 1..Len(cols) : lower(cols[i]) = c
        THEN params[CHOOSE i \in 1..Len(cols) : lower(cols[i]) = c]
        ELSE row[c]]

\* cursor.execute(statement, params) with catalog m and rows d: the sqlite3
\* error it raises (or "ok"), the catalog and rows after it, and the rows,
\* rowcount and lastrowid of the cursor.  The rows of a SELECT are left to
\* RowSequences.
Execute(ts, s, m, d) ==
    LET t == s.table IN
    CASE s.kind = "CREATE" ->
            IF t \in m THEN Outcome("ok", m, d)                   \* IF NOT EXISTS
            ELSE Outcome("ok", m \cup {t}, [x \in m \cup {t} |-> IF x = t THEN {} ELSE d[x]])
      [] s.kind = "DROP" ->
            Outcome("ok", m \ {t}, [x \in m \ {t} |-> d[x]])
      [] s.kind = "SELECT_MASTER" ->
            [Outcome("ok", m, d) EXCEPT
                !.rows = IF s.params[1] \in m THEN << <<s.params[1]>> >> ELSE <<>>]
      [] t \notin m -> Outcome("OperationalError", m, d)         \* no such table
      [] s.kind = "DELETE_ALL" ->
            [Outcome("ok", m, [d EXCEPT ![t] = {}]) EXCEPT !.rowcount = Cardinality(d[t])]
      [] s.kind \in {"SELECT", "DELETE"} /\ s.where = <<>> ->
            Outcome("OperationalError", m, d)                    \* incomplete input
      [] s.kind \in {"SELECT", "INSERT", "UPDATE"} /\ s.cols = <<>> ->
            Outcome("OperationalError", m, d)                    \* syntax error
      [] s.kind = "SELECT" -> Outcome("ok", m, d)
      [] s.kind = "DELETE" ->
            LET gone == {r \in d[t] : Matches(r, s.where, s.params)} IN
            [Outcome("ok", m, [d EXCEPT ![t] = d[t] \ gone]) EXCEPT
                !.rowcount = Cardinality(gone)]
      [] s.kind = "INSERT" ->
            LET blank == [c \in EngineColumns(ts, t) \cup {ROWID} |-> None]
                given == Assign(blank, s.cols, s.params)
                row   == IF given[ROWID] = None
                         THEN [given EXCEPT ![ROWID] = NewRowid(d[t])]
                         ELSE given
            IN  IF \E r \in d[t] : r[ROWID] = row[ROWID]
                THEN Outcome("IntegrityError", m, d)             \* UNIQUE constraint
                ELSE [Outcome("ok", m, [d EXCEPT ![t] = d[t] \cup {row}]) EXCEPT
                         !.rowcount = 1, !.lastrowid = row[ROWID]]
      [] s.kind = "UPDATE" ->
            LET hit  == {r \in d[t] : Matches(r, s.where,
                                          <<s.params[Len(s.params)]>>)}
                new  == {Assign(r, s.cols, s.params) : r \in hit}
                rest == d[t] \ hit
            IN  IF \E r \in new : r[ROWID] = None
                THEN Outcome("IntegrityError", m, d)             \* datatype mismatch
                ELSE IF \E r \in new : \E q \in rest : q[ROWID] = r[ROWID]
                THEN Outcome("IntegrityError", m, d)             \* UNIQUE constraint
                ELSE [Outcome("ok", m, [d EXCEPT ![t] = rest \cup new]) EXCEPT
                         !.rowcount = Cardinality(hit)]

----------------------------------------------------------------------------
(* Python values compared by table_exists.                                 *)

PyNone     == [type |-> "NoneType", v |-> <<>>]
PyFalse    == [type |-> "bool", v |-> <<"False">>]
PyTuple(x) == [type |-> "tuple", v |-> x]

\* a != b
PyNotEqual(a, b) == ~(a.type = b.type /\ a.v = b.v)

\* cursor.fetchone()
Fetchone(rows) == IF rows = <<>> THEN PyNone ELSE PyTuple(rows[1])

----------------------------------------------------------------------------
(* get_all: the sort specification, the statement, the records.            *)

\* A sort_by argument is [ctr, mut, items]: None or empty (ctr = "none"), a
\* column name (ctr = "str", the name being items[1].k), or a tuple or list
\* (ctr = "seq", mut telling a list) of items, each a tuple of n strings
\* (k, d, ...) or a bare string k.
SortNone       == [ctr |-> "none", mut |-> FALSE, items |-> <<>>]
SortItem(k, d) == [tup |-> TRUE, n |-> 2, k |-> k, d |-> d]
SortItem3(k, d) == [tup |-> TRUE, n |-> 3, k |-> k, d |-> d]
SortName(k)    == [tup |-> FALSE, n |-> 0, k |-> k, d |-> <<>>]
SortStr(k)     == [ctr |-> "str", mut |-> FALSE, items |-> <<SortName(k)>>]
SortTuple(items) == [ctr |-> "seq", mut |-> FALSE, items |-> items]
SortList(items)  == [ctr |-> "seq", mut |-> TRUE, items |-> items]

\* The exception the format call of the raise statement ends in:
\* comparison_type is no name of that scope
_assert_valid_sorting_type(sorting_type) ==
    IF sorting_type \in VALID_SORTING THEN "ok" ELSE "NameError"

\* Lines 246-251: a column name or a single (column, direction) becomes a
\* list of one tuple (the first of two items being a column name)
SortAsList(sort_by) ==
    IF sort_by.ctr = "str" THEN SortList(<<SortItem(sort_by.items[1].k, ASC)>>)
    ELSE IF /\ Len(sort_by.items) = 2
            /\ ~sort_by.items[1].tup /\ ~sort_by.items[2].tup
            /\ sort_by.items[2].k \in VALID_SORTING
    THEN SortList(<<SortItem(sort_by.items[1].k, sort_by.items[2].k)>>)
    ELSE sort_by

\* One turn of the loop of lines 254-265
SortItemError(ts, table_name, sort_by, k) ==
    IF k.tup
    THEN FirstError(<<IF k.n # 2 THEN "SyntaxError" ELSE "ok",
                      _assert_key_in_table(ts, table_name, k.k),
                      IF k.n = 2 THEN _assert_valid_sorting_type(k.d) ELSE "ok">>)
    ELSE FirstError(<<IF sort_by.mut THEN "ok" ELSE "TypeError",
                      _assert_key_in_table(ts, table_name, k.k)>>)

\* Lines 245-265: [err, list], list being the (column, direction) pairs
ProcessSortBy(ts, table_name, sort_by_orig) ==
    IF sort_by_orig.ctr = "none" THEN [err |-> "ok", list |-> <<>>]
    ELSE LET sort_by == SortAsList(sort_by_orig)
             n == Len(sort_by.items)
         IN  [err  |-> FirstError([i \in 1..n |->
                           SortItemError(ts, table_name, sort_by, sort_by.items[i])]),
              list |-> [i \in 1..n |->
                           <<sort_by.items[i].k,
                             IF sort_by.items[i].tup THEN sort_by.items[i].d ELSE ASC>>]]

\* x[0].startswith("FOREIGN KEY")
StartsWithForeignKey(k) ==
    Len(k) >= 11 /\ SubSeq(k, 1, 11) = SubSeq(FKPrefix, 1, 11)

\* The items of s whose keep is TRUE
RECURSIVE Filter(_, _)
Filter(s, keep) ==
    IF s = <<>> THEN <<>>
    ELSE IF keep[1] THEN <<Head(s)>> \o Filter(Tail(s), Tail(keep))
    ELSE Filter(Tail(s), Tail(keep))

\* Lines 236-243: [err, list]
ProcessGetList(ts, table_name, get_list) ==
    IF get_list # <<>>
    THEN [err  |-> IF \A k \in Range(get_list) :
                         _assert_key_in_table(ts, table_name, k) = "ok"
                   THEN "ok" ELSE "KeyNotInTable",
          list |-> get_list]
    ELSE LET cols == TableCols(ts, table_name) IN
         [err  |-> "ok",
          list |-> Filter([i \in 1..Len(cols) |-> cols[i][1]],
                              [i \in 1..Len(cols) |-> ~StartsWithForeignKey(cols[i][1])])]

\* Lines 267-273 with params.insert(0, v) for params.append(v): the
\* parameters in the reverse of the order of the predicates
ParamsReversed(select_dict) ==
    [i \in 1..Len(select_dict) |-> select_dict[Len(select_dict) + 1 - i].v]

\* Lines 267-273 and 378-384: the predicates and the parameters
WhereOf(select_dict)  == [i \in 1..Len(select_dict) |->
                             <<select_dict[i].key, select_dict[i].c>>]
ParamsOf(select_dict) == [i \in 1..Len(select_dict) |-> select_dict[i].v]

\* dict(zip(get_list, result)) for the row the result came from
RecordOf(get_list, row) ==
    [k \in Range(get_list) |-> ColValue(row, k)]

Returned(err, sql) == [err |-> err, sql |-> sql, recs |-> <<>>, ret |-> -1]

\* get_all: the outcomes [err, sql, recs] it may have, sql being the
\* statements it sent and recs the list it returns
get_all(ts, m, d, table_name, select_dict_orig, get_list_orig, sort_by_orig) ==
    IF _assert_table_in_database_structure(ts, table_name) # "ok"
    THEN {Returned("TableNotInDatabase", <<>>)}
    ELSE
    LET sel  == _process_select_dict(ts, table_name, select_dict_orig)
        getl == ProcessGetList(ts, table_name, get_list_orig)
        sort == ProcessSortBy(ts, table_name, sort_by_orig)
        bad  == FirstError(<<sel.err, getl.err, sort.err>>)
        stmt == Stmt("SELECT", table_name, getl.list, WhereOf(sel.dict),
                     sort.list, ParamsOf(sel.dict))
        done == Execute(ts, stmt, m, d)
    IN  IF bad # "ok" THEN {Returned(bad, <<>>)}
        ELSE IF done.err # "ok" THEN {Returned(done.err, <<stmt>>)}
        ELSE {[Returned("ok", <<stmt>>) EXCEPT
                  !.recs = [i \in 1..Len(rows) |-> RecordOf(getl.list, rows[i])]] :
                rows \in RowSequences({r \in d[table_name] :
                                          Matches(r, stmt.where, stmt.params)},
                                      stmt.order)}

\* get: the outcomes of get_all, the list cut to its first record
get(ts, m, d, table_name, select_dict, get_list, sort_by) ==
    {[o EXCEPT !.recs = IF o.recs = <<>> THEN <<>> ELSE <<o.recs[1]>>] :
        o \in get_all(ts, m, d, table_name, select_dict, get_list, sort_by)}

----------------------------------------------------------------------------
(* put, post and delete.  A put_dict is the sequence of its entries        *)
(* [key, v] in insertion order.                                            *)

Put(k, v) == [key |-> k, v |-> v]

KeysOf(put_dict)   == [i \in 1..Len(put_dict) |-> put_dict[i].key]
ValuesOf(put_dict) == [i \in 1..Len(put_dict) |-> put_dict[i].v]

\* Lines 325-328 without the test of line 327: the value of select_dict
\* replaces the one put_dict has for the key
MergeSelectFirst(select_dict, put_dict) ==
    Filter(put_dict,
           [i \in 1..Len(put_dict) |->
                 put_dict[i].key \notin Range([j \in 1..Len(select_dict) |->
                                                   select_dict[j].key])])
    \o [i \in 1..Len(select_dict) |-> Put(select_dict[i].key, select_dict[i].v)]

\* Lines 325-328: everything in select_dict is added to put_dict
Merge(select_dict, put_dict) ==
    put_dict \o
    Filter([i \in 1..Len(select_dict) |-> Put(select_dict[i].key, select_dict[i].v)],
           [i \in 1..Len(select_dict) |->
                 select_dict[i].key \notin Range(KeysOf(put_dict))])

Done(err, sql, ret, d) == [err |-> err, sql |-> sql, ret |-> ret, data |-> d]

\* Lines 347-352: create a new record
InsertRecord(ts, m, d, table_name, put_dict, sent) ==
    LET stmt == Stmt("INSERT", table_name, KeysOf(put_dict), <<>>, <<>>,
                     ValuesOf(put_dict))
        done == Execute(ts, stmt, m, d)
    IN  IF done.err # "ok" THEN Done(done.err, sent \o <<stmt>>, -1, d)
        ELSE Done("ok", sent \o <<stmt>>, done.lastrowid, done.data)

\* Lines 340-345 replaced by lines 347-352: an INSERT where the probe found a
\* record
UpdateRecordAsInsert(ts, m, d, table_name, put_dict, sent, rowid) ==
    InsertRecord(ts, m, d, table_name, put_dict, sent)

\* Lines 340-345: update the record the probe found
UpdateRecord(ts, m, d, table_name, put_dict, sent, rowid) ==
    LET stmt == Stmt("UPDATE", table_name, KeysOf(put_dict), <<<<ROWID, "=">>>>, <<>>,
                     ValuesOf(put_dict) \o <<rowid>>)
        done == Execute(ts, stmt, m, d)
    IN  IF done.err # "ok" THEN Done(done.err, sent \o <<stmt>>, -1, d)
        ELSE Done("ok", sent \o <<stmt>>, rowid, done.data)

\* Lines 335-352 when force_new_record is false: the outcomes of the probe
\* and of the statement that follows it
AfterProbe(ts, m, d, table_name, select_dict, put_dict) ==
    {IF probe.err # "ok" THEN Done(probe.err, probe.sql, -1, d)
     ELSE IF probe.recs # <<>>
     THEN UpdateRecord(ts, m, d, table_name, put_dict, probe.sql, probe.recs[1][ROWID])
     ELSE InsertRecord(ts, m, d, table_name, put_dict, probe.sql) :
        probe \in get(ts, m, d, table_name, select_dict, <<ROWID>>, SortNone)}

\* put with lines 321-323 moved to its end: the keys of put_dict are checked
\* after the statements are sent
putLateKeyCheck(ts, m, d, table_name, select_dict_orig, put_dict_orig, force_new_record) ==
    IF _assert_table_in_database_structure(ts, table_name) # "ok"
    THEN {Done("TableNotInDatabase", <<>>, -1, d)}
    ELSE
    LET sel == _process_select_dict(ts, table_name, select_dict_orig)
        bad == FirstError([i \in 1..Len(put_dict_orig) |->
                       _assert_key_in_table(ts, table_name, put_dict_orig[i].key)])
        put_dict == Merge(sel.dict, put_dict_orig)
    IN  IF sel.err # "ok" THEN {Done(sel.err, <<>>, -1, d)}
        ELSE {IF bad # "ok" THEN [o EXCEPT !.err = bad, !.ret = -1] ELSE o :
                 o \in IF force_new_record
                       THEN {InsertRecord(ts, m, d, table_name, put_dict, <<>>)}
                       ELSE AfterProbe(ts, m, d, table_name, sel.dict, put_dict)}

\* put: the outcomes [err, sql, ret, data] it may have, ret being the rowid
\* it returns and data the rows it leaves
put(ts, m, d, table_name, select_dict_orig, put_dict_orig, force_new_record) ==
    IF _assert_table_in_database_structure(ts, table_name) # "ok"
    THEN {Done("TableNotInDatabase", <<>>, -1, d)}
    ELSE
    LET sel == _process_select_dict(ts, table_name, select_dict_orig)
        bad == FirstError(<<sel.err>> \o
                   [i \in 1..Len(put_dict_orig) |->
                       _assert_key_in_table(ts, table_name, put_dict_orig[i].key)])
        put_dict == Merge(sel.dict, put_dict_orig)
    IN  IF bad # "ok" THEN {Done(bad, <<>>, -1, d)}
        ELSE IF force_new_record
        THEN {InsertRecord(ts, m, d, table_name, put_dict, <<>>)}
        ELSE AfterProbe(ts, m, d, table_name, sel.dict, put_dict)

\* post without force_new_record
postProbing(ts, m, d, table_name, post_dict) ==
    put(ts, m, d, table_name, <<>>, post_dict, FALSE)

\* post
post(ts, m, d, table_name, post_dict) == put(ts, m, d, table_name, <<>>, post_dict, TRUE)

\* delete: [err, sql, ret, data], ret being the number of rows deleted
delete(ts, m, d, table_name, select_dict_orig) ==
    IF _assert_table_in_database_structure(ts, table_name) # "ok"
    THEN Done("TableNotInDatabase", <<>>, -1, d)
    ELSE
    LET sel  == _process_select_dict(ts, table_name, select_dict_orig)
        stmt == Stmt("DELETE", table_name, <<>>, WhereOf(sel.dict), <<>>,
                     ParamsOf(sel.dict))
        done == Execute(ts, stmt, m, d)
    IN  IF sel.err # "ok" THEN Done(sel.err, <<>>, -1, d)
        ELSE IF done.err # "ok" THEN Done(done.err, <<stmt>>, -1, d)
        ELSE Done("ok", <<stmt>>, done.rowcount, done.data)

----------------------------------------------------------------------------
(* The calls of the API as actions.                                        *)

\* The one connection of a Database object
Db == "db"

\* Statements that modify rows, and statements that modify the catalog
DML == {"INSERT", "UPDATE", "DELETE", "DELETE_ALL"}
DDL == {"CREATE", "DROP"}

\* cursor.execute opens a transaction before a statement that modifies rows,
\* once the statement is prepared: not when it fails with a syntax error or
\* for want of the table, but also when it fails on a constraint
Begins(sent, err) ==
    \E i \in 1..Len(sent) :
        sent[i].kind \in DML /\ ~(i = Len(sent) /\ err = "OperationalError")

\* cursor.execute opens no transaction for CREATE TABLE and DROP TABLE:
\* outside a transaction the engine commits them at once (sqlite3 as of
\* Python 3.6)
Autocommits(sent) == \E i \in 1..Len(sent) : sent[i].kind \in DDL

\* What the statements of the call just made do to connection c's
\* transaction and to the file
Transaction(c) ==
    /\ in_transaction' = IF Begins(last'.sql, last'.err)
                         THEN in_transaction \cup {c} ELSE in_transaction
    /\ disk' = IF c \notin in_transaction /\ Autocommits(last'.sql)
               THEN [master |-> master', data |-> data'] ELSE disk

RowidsFit(d) == \A t \in DOMAIN d : \A r \in d[t] : r[ROWID] <= MaxRowid

\* create_table, delete_table and reset_table: one statement each
TableStatement(op, table_name) ==
    CASE op = "create_table" ->
            Stmt("CREATE", table_name, TableCols(tables, table_name), <<>>, <<>>, <<>>)
      [] op = "delete_table" -> Stmt("DROP", table_name, <<>>, <<>>, <<>>, <<>>)
      [] op = "reset_table"  -> Stmt("DELETE_ALL", table_name, <<>>, <<>>, <<>>, <<>>)

TableCall(op, table_name) ==
    IF _assert_table_in_database_structure(tables, table_name) # "ok"
    THEN /\ last' = [Idle EXCEPT !.op = op, !.table = table_name,
                                 !.err = "TableNotInDatabase"]
         /\ UNCHANGED <<tables, master, data>>
         /\ Transaction(Db)
    ELSE LET stmt == TableStatement(op, table_name)
             done == Execute(tables, stmt, master, data)
         IN  /\ last' = [Idle EXCEPT !.op = op, !.table = table_name,
                                     !.sql = <<stmt>>, !.err = done.err]
             /\ master' = done.master
             /\ data' = done.data
             /\ UNCHANGED tables
             /\ Transaction(Db)

CreateTable(table_name) == TableCall("create_table", table_name)
DeleteTable(table_name) == TableCall("delete_table", table_name)
ResetTable(table_name)  == TableCall("reset_table", table_name)

TableExists(table_name) ==
    IF _assert_table_in_database_structure(tables, table_name) # "ok"
    THEN /\ last' = [Idle EXCEPT !.op = "table_exists", !.table = table_name,
                                 !.err = "TableNotInDatabase"]
         /\ UNCHANGED <<tables, master, data>>
         /\ Transaction(Db)
    ELSE LET stmt == Stmt("SELECT_MASTER", table_name, <<>>, <<>>, <<>>, <<table_name>>)
             done == Execute(tables, stmt, master, data)
         IN  /\ last' = [Idle EXCEPT !.op = "table_exists", !.table = table_name,
                                     !.sql = <<stmt>>, !.err = done.err,
                                     !.flag = PyNotEqual(Fetchone(done.rows), PyFalse)]
             /\ UNCHANGED <<tables, master, data>>
             /\ Transaction(Db)

GetAll(table_name, select_dict, get_list, sort_by) ==
    \E o \in get_all(tables, master, data, table_name, select_dict, get_list, sort_by) :
        /\ last' = [Idle EXCEPT !.op = "get_all", !.table = table_name,
                                !.sel = select_dict, !.getl = get_list,
                                !.sort = sort_by, !.sql = o.sql, !.err = o.err,
                                !.recs = o.recs]
        /\ UNCHANGED <<tables, master, data>>
        /\ Transaction(Db)

Get(table_name, select_dict, get_list, sort_by) ==
    \E o \in get(tables, master, data, table_name, select_dict, get_list, sort_by) :
        /\ last' = [Idle EXCEPT !.op = "get", !.table = table_name,
                                !.sel = select_dict, !.getl = get_list,
                                !.sort = sort_by, !.sql = o.sql, !.err = o.err,
                                !.recs = o.recs]
        /\ UNCHANGED <<tables, master, data>>
        /\ Transaction(Db)

PutCall(table_name, select_dict, put_dict, force_new_record) ==
    \E o \in put(tables, master, data, table_name, select_dict, put_dict,
                 force_new_record) :
        /\ RowidsFit(o.data)
        /\ last' = [Idle EXCEPT !.op = "put", !.table = table_name,
                                !.sel = select_dict, !.put = put_dict,
                                !.force = force_new_record,
                                !.sql = o.sql, !.err = o.err, !.ret = o.ret]
        /\ data' = o.data
        /\ UNCHANGED <<tables, master>>
        /\ Transaction(Db)

PostCall(table_name, post_dict) ==
    \E o \in post(tables, master, data, table_name, post_dict) :
        /\ RowidsFit(o.data)
        /\ last' = [Idle EXCEPT !.op = "post", !.table = table_name,
                                !.put = post_dict, !.force = TRUE,
                                !.sql = o.sql, !.err = o.err, !.ret = o.ret]
        /\ data' = o.data
        /\ UNCHANGED <<tables, master>>
        /\ Transaction(Db)

DeleteCall(table_name, select_dict) ==
    LET o == delete(tables, master, data, table_name, select_dict) IN
    /\ last' = [Idle EXCEPT !.op = "delete", !.table = table_name,
                            !.sel = select_dict,
                            !.sql = o.sql, !.err = o.err, !.ret = o.ret]
    /\ data' = o.data
    /\ UNCHANGED <<tables, master>>
    /\ Transaction(Db)

----------------------------------------------------------------------------
(* The object in use: any call may follow any call.  The arguments tried   *)
(* are a few of each shape the calls distinguish.                          *)

TableArgs == {T, ZZ}

GoodSelArgs ==
    {<<>>,
     <<Bare(K, 1)>>, <<Bare(K, None)>>,
     <<Pair(DATA, 1, GT)>>,
     <<Bare(K, 1), Bare(DATA, 1)>>}
BadSelArgs ==
    {<<Bare(ZZ, 1)>>, <<Pair(K, 1, "~")>>, <<Tuple1(K, 1)>>}

\* selections that compare with None
NullSelArgs == {<<Pair(DATA, None, LT)>>, <<Pair(K, None, NEQ)>>}

GoodPutArgs == {<<>>, <<Put(DATA, 1)>>, <<Put(DATA, 2)>>, <<Put(ROWID, 2)>>}
BadPutArgs  == {<<Put(ZZ, 1)>>}

GetListArgs == {<<K, K, DATA>>, <<ROWID>>, <<ZZ>>}
SortArgs ==
    {SortStr(DATA), SortTuple(<<SortName(DATA), SortName(DESC)>>),
     SortList(<<SortItem(DATA, DESC), SortItem(K, ASC)>>),
     SortList(<<SortName(DATA)>>),
     SortList(<<SortItem(DATA, <<"S","I","D","E">>)>>),
     SortTuple(<<SortName(DATA), SortName(<<"S","I","D","E">>)>>),
     SortList(<<SortItem3(DATA, ASC)>>),
     SortList(<<SortItem(ZZ, ASC)>>)}

\* <<select_dict, get_list, sort_by>>
GetArgs ==
    {<<s, <<>>, SortNone>> : s \in GoodSelArgs \cup BadSelArgs}
    \cup {<<<<Bare(K, 1)>>, g, SortNone>> : g \in GetListArgs}
    \cup {<<<<Bare(K, 1)>>, <<>>, o>> : o \in SortArgs}

\* <<select_dict, put_dict>>
PutArgs ==
    {<<s, <<Put(DATA, 1)>>>> : s \in GoodSelArgs \cup BadSelArgs}
    \cup {<<<<Bare(K, 1)>>, p>> : p \in GoodPutArgs \cup BadPutArgs}
    \cup {<<<<Bare(K, 1), Pair(DATA, 2, LT)>>, <<Put(K, 2)>>>>,
          <<<<Bare(K, 1)>>, <<Put(K, 2)>>>>}

\* <<select_dict, put_dict>> of the puts with force_new_record
ForceArgs ==
    {<<<<Bare(K, None)>>, <<Put(DATA, 1)>>>>,
     <<<<Bare(K, 1), Pair(DATA, 2, LT)>>, <<Put(K, 2)>>>>,
     <<<<Bare(ZZ, 1)>>, <<Put(DATA, 1)>>>>}

\* the arguments of get: some of those of get_all
FirstArgs ==
    {a \in GetArgs : \/ a[1] \in {<<>>, <<Pair(DATA, 1, GT)>>, <<Tuple1(K, 1)>>}
                     \/ a[3] \in {SortTuple(<<SortName(DATA), SortName(DESC)>>),
                                  SortList(<<SortItem(DATA, <<"S","I","D","E">>)>>)}}

Init ==
    /\ tables = Structure
    /\ master = {}
    /\ data = NoData
    /\ last = Idle
    /\ step = 0
    /\ disk = [master |-> master, data |-> data]
    /\ in_transaction = {}
    /\ inflight = <<>>

Next ==
    \/ UNCHANGED <<step, inflight>> /\ \E t \in TableArgs : CreateTable(t)
    \/ UNCHANGED <<step, inflight>> /\ \E t \in TableArgs : DeleteTable(t)
    \/ UNCHANGED <<step, inflight>> /\ \E t \in TableArgs : ResetTable(t)
    \/ UNCHANGED <<step, inflight>> /\ \E t \in TableArgs : TableExists(t)
    \/ UNCHANGED <<step, inflight>> /\ \E a \in GetArgs : GetAll(T, a[1], a[2], a[3])
    \/ UNCHANGED <<step, inflight>> /\ \E a \in FirstArgs : Get(T, a[1], a[2], a[3])
    \/ UNCHANGED <<step, inflight>> /\ GetAll(ZZ, <<Bare(K, 1)>>, <<>>, SortNone)
    \/ UNCHANGED <<step, inflight>> /\ \E a \in PutArgs : PutCall(T, a[1], a[2], FALSE)
    \/ UNCHANGED <<step, inflight>> /\ PutCall(ZZ, <<Bare(K, 1)>>, <<Put(DATA, 1)>>, FALSE)
    \/ UNCHANGED <<step, inflight>> /\ \E a \in ForceArgs : PutCall(T, a[1], a[2], TRUE)
    \/ UNCHANGED <<step, inflight>> /\ \E p \in GoodPutArgs \cup BadPutArgs \cup {<<Put(K, 1), Put(DATA, 2)>>} :
          PostCall(T, p)
    \/ UNCHANGED <<step, inflight>> /\ \E s \in GoodSelArgs \cup BadSelArgs \cup NullSelArgs : DeleteCall(T, s)
    \/ UNCHANGED <<step, inflight>> /\ DeleteCall(ZZ, <<Bare(K, 1)>>)

Spec == Init /\ [][Next]_vars

----------------------------------------------------------------------------
(* Two upserts with the same selection {k: v}, from any contents of t      *)
(* that have no row for v.                                                 *)

AllRows == [{K, DATA, ROWID} -> 0..MaxVal]

Contents ==
    {rows \in SUBSET {r \in AllRows : r[ROWID] \in 1..MaxRowid} :
        \A r, q \in rows : r[ROWID] = q[ROWID] => r = q}

RowsFor(rows, v) == {r \in rows : ColValue(r, K) = v}

InitUpsert ==
    /\ tables = Structure
    /\ master = {T}
    /\ \E rows \in Contents : data = [x \in {T} |-> rows]
    /\ last = Idle
    /\ step = 0
    /\ disk = [master |-> master, data |-> data]
    /\ in_transaction = {}
    /\ inflight = <<>>

\* upsert(T, {k: v}, {data: d1})
UpsertOnce ==
    /\ step = 0
    /\ step' = 1
    /\ UNCHANGED inflight
    /\ \E v, d1 \in Values :
          /\ RowsFor(data[T], v) = {}
          /\ PutCall(T, <<Bare(K, v)>>, <<Put(DATA, d1)>>, FALSE)

\* upsert(T, {k: v}, {data: d2}), v being that of the first call
UpsertAgain ==
    /\ step = 1
    /\ step' = 2
    /\ UNCHANGED inflight
    /\ \E d2 \in Values : PutCall(T, last.sel, <<Put(DATA, d2)>>, FALSE)

NextUpsert == UpsertOnce \/ UpsertAgain

SpecUpsert == InitUpsert /\ [][NextUpsert]_vars

\* C2 (as claimed): after upsert(T, {k: v}, {data: d1}) and then
\* upsert(T, {k: v}, {data: d2}) on a table that had no row for v, the table
\* has exactly one row with k = v, and its data is d2.
C2_UpsertTwiceAsClaimed ==
    step = 2 =>
        LET rows == RowsFor(data[T], last.sel[1].v) IN
        /\ Cardinality(rows) = 1
        /\ \A r \in rows : ColValue(r, DATA) = last.put[1].v

----------------------------------------------------------------------------
(* Claims about the object in use (Spec).                                  *)

Declared(k) == k \in {K, DATA, ROWID}

\* A sort_by that names an undeclared column, or a direction other than ASC
\* and DESC, or holds a tuple that is no pair
BadSort(sort_by) ==
    IF /\ sort_by.ctr = "seq" /\ Len(sort_by.items) = 2
       /\ ~sort_by.items[1].tup /\ ~sort_by.items[2].tup
    THEN \/ ~Declared(sort_by.items[1].k)
         \/ sort_by.items[2].k \notin {ASC, DESC} /\ ~Declared(sort_by.items[2].k)
    ELSE \E i \in 1..Len(sort_by.items) :
            LET it == sort_by.items[i] IN
            \/ ~Declared(it.k)
            \/ it.tup /\ (it.n # 2 \/ it.d \notin {ASC, DESC})

\* A call that fails validation: an undeclared table, an undeclared key in
\* the selection, the mutation, the projection or the sort, an invalid
\* operator, an invalid direction, a tuple of the wrong arity
FailsValidation(c) ==
    \/ c.table \notin {T}
    \/ \E i \in 1..Len(c.sel) :
          \/ ~Declared(c.sel[i].key)
          \/ c.sel[i].tup /\ (c.sel[i].n # 2 \/ C6BadOperator(c.sel[i]))
    \/ \E i \in 1..Len(c.put) : ~Declared(c.put[i].key)
    \/ \E i \in 1..Len(c.getl) : ~Declared(c.getl[i])
    \/ BadSort(c.sort)

\* The errors raised by the wrapper's own code, not by the engine
RaisedByWrapper ==
    {"TableNotInDatabase", "KeyNotInTable", "InvalidComparisonType",
     "InvalidSortingType", "SyntaxError", "NameError", "TypeError"}

PublicOperations ==
    {"get_all", "get", "put", "post", "delete", "create_table", "delete_table",
     "reset_table", "table_exists"}

\* The rows a selection of bare values and (value, operator) pairs selects:
\* column operator value for each entry, = NULL and != NULL being IS NULL
\* and IS NOT NULL, and no row being <, <=, > or >= NULL
Satisfies(r, e) ==
    LET c == IF e.tup THEN e.c ELSE "=" IN
    Compare(ColValue(r, e.key),
            IF e.v = None /\ c = "=" THEN "IS"
            ELSE IF e.v = None /\ c = "!=" THEN "IS NOT" ELSE c,
            e.v)

Selected(rows, sel) == {r \in rows : \A i \in 1..Len(sel) : Satisfies(r, sel[i])}

\* C1 (as claimed): a put without force_new_record, valid and with a
\* selection that is not empty, on a table that exists: if the selection
\* matches no row, one row is added and the returned identifier is that of
\* the new row and of no row before the call; if it matches one row, no row
\* is added, the other rows are kept, and the returned identifier is that of
\* the matched row before and after the call.
C1_UpsertBranchAsClaimed ==
    [][(/\ last'.op = "put" /\ ~last'.force /\ last'.table = T /\ T \in master
        /\ ~FailsValidation(last') /\ last'.sel # <<>>)
       => LET before == data[T]
              after  == data'[T]
              hit    == Selected(before, last'.sel)
          IN  /\ hit = {} =>
                    /\ last'.err = "ok"
                    /\ \E r \in after \ before :
                          /\ after = before \cup {r}
                          /\ last'.ret = r[ROWID]
                    /\ \A q \in before : q[ROWID] # last'.ret
              /\ Cardinality(hit) = 1 =>
                    /\ last'.err = "ok"
                    /\ Cardinality(after) = Cardinality(before)
                    /\ before \ hit \subseteq after
                    /\ \A r \in hit : last'.ret = r[ROWID]
                    /\ \E q \in after \ (before \ hit) : q[ROWID] = last'.ret]_vars

\* C3 (as claimed): get_all and delete with an empty selection, on a table
\* that exists, send no statement whose WHERE is followed by no predicate;
\* get_all returns one record per row and delete leaves no row.
C3_EmptySelectionAsClaimed ==
    (/\ last.op \in {"get_all", "delete"} /\ last.table = T /\ T \in master
     /\ last.sel = <<>> /\ ~FailsValidation(last))
    => /\ \A i \in 1..Len(last.sql) : last.sql[i].where # <<>>
       /\ last.err = "ok"
       /\ last.op = "get_all" => Len(last.recs) = Cardinality(data[T])
       /\ last.op = "delete" => data[T] = {}

\* C5 (as claimed): table_exists of a declared table returns TRUE iff the
\* table is in the engine's catalog, that is iff it was created and not
\* deleted since.
C5_TableExistsAsClaimed ==
    (last.op = "table_exists" /\ last.err = "ok") => (last.flag <=> last.table \in master)

\* C9: a call of a public operation that fails validation raises an error of
\* the wrapper, and a call that raises one has sent no statement and leaves
\* the catalog and the rows as they were.
C9_ValidationPrecedesExecution ==
    [][last'.op \in PublicOperations
       => /\ FailsValidation(last') => last'.err \in RaisedByWrapper
          /\ last'.err \in RaisedByWrapper
                => last'.sql = <<>> /\ data' = data /\ master' = master]_vars

\* C9 witness: a put with an undeclared key in put_dict was rejected on a
\* table that has rows.
C9_Witness ==
    /\ T \in master
    /\ data[T] # {}
    /\ last.op = "put" /\ last.err = "KeyNotInTable" /\ last.sql = <<>>
    /\ \E i \in 1..Len(last.put) : ~Declared(last.put[i].key)

\* A sort_by that is one (column, direction) pair, as a tuple or in a list,
\* with a declared column and a direction that is neither ASC nor DESC
BadDirection(sort_by) ==
    /\ sort_by.ctr = "seq"
    /\ \/ /\ Len(sort_by.items) = 1
          /\ sort_by.items[1].tup /\ sort_by.items[1].n = 2
          /\ Declared(sort_by.items[1].k) /\ sort_by.items[1].d \notin {ASC, DESC}
       \/ /\ Len(sort_by.items) = 2
          /\ ~sort_by.items[1].tup /\ ~sort_by.items[2].tup
          /\ Declared(sort_by.items[1].k)
          /\ sort_by.items[2].k \notin {ASC, DESC} /\ ~Declared(sort_by.items[2].k)

\* C10 (as claimed): get_all and get with a declared table, a valid
\* selection and projection and a sort pair whose direction is neither ASC
\* nor DESC fail with InvalidSortingType.
C10_InvalidSortingTypeAsClaimed ==
    (/\ last.op \in {"get_all", "get"} /\ last.table = T
     /\ ~FailsValidation([last EXCEPT !.sort = SortNone])
     /\ BadDirection(last.sort))
    => last.err = "InvalidSortingType"

\* C11 (as claimed): a delete with a valid selection that is not empty, on a
\* table that exists, raises no error, removes the rows that satisfy every
\* predicate of the selection and no other row, and returns the number of
\* rows removed (0 when no row satisfies the selection).
C11_DeleteCountAsClaimed ==
    [][(/\ last'.op = "delete" /\ last'.table = T /\ T \in master
        /\ ~FailsValidation(last') /\ last'.sel # <<>>)
       => LET hit == Selected(data[T], last'.sel) IN
          /\ last'.err = "ok"
          /\ data'[T] = data[T] \ hit
          /\ last'.ret = Cardinality(hit)]_vars

----------------------------------------------------------------------------
(* Two Database objects on one file, each upserting the same selection     *)
(* {k: v}: a put is two statements, the probe and the INSERT or UPDATE,    *)
(* and the other writer's statements may come between them.  A writer's    *)
(* changes are its own until it commits; while they are pending the other  *)
(* writer reads the file as committed and cannot write ("database is       *)
(* locked" once the busy timeout has passed).  A writer whose call raised  *)
(* makes no further call.                                                  *)

Writers == {"a", "b"}

MaxPuts == 2

\* the rows connection w reads
View(w) == IF inflight[w].dirty THEN data ELSE disk.data

RaceContents == {rows \in Contents : Cardinality(rows) <= 1}

InitRace ==
    /\ tables = Structure
    /\ master = {T}
    /\ \E rows \in RaceContents : data = [x \in {T} |-> rows]
    /\ last = Idle
    /\ step = 0
    /\ disk = [master |-> master, data |-> data]
    /\ in_transaction = {}
    /\ \E v \in Values :
          /\ RowsFor(data[T], v) = {}
          /\ inflight = [w \in Writers |->
                            [pc |-> "idle", calls |-> 0, dirty |-> FALSE,
                             sel |-> <<Bare(K, v)>>,
                             put |-> <<Put(DATA, IF w = "a" THEN 1 ELSE 2)>>,
                             result |-> None, err |-> "ok"]]

\* Lines 316-335 of put: the checks and the probe
Probe(w) ==
    LET me  == inflight[w]
        sel == _process_select_dict(tables, T, me.sel)
    IN  /\ me.pc = "idle"
        /\ me.calls < MaxPuts
        /\ \E probe \in get(tables, master, [x \in {T} |-> View(w)[T]], T, sel.dict,
                           <<ROWID>>, SortNone) :
              inflight' = [inflight EXCEPT ![w] =
                  [me EXCEPT !.calls = @ + 1,
                             !.pc = IF probe.err = "ok" THEN "probed" ELSE "stopped",
                             !.err = probe.err,
                             !.result = IF probe.err = "ok" /\ probe.recs # <<>>
                                        THEN probe.recs[1][ROWID] ELSE None]]
        /\ UNCHANGED <<tables, master, data, last, step, disk, in_transaction>>

\* Lines 337-352 of put: the UPDATE of the row the probe found, or the INSERT
Write(w) ==
    LET me       == inflight[w]
        sel      == _process_select_dict(tables, T, me.sel)
        put_dict == Merge(sel.dict, me.put)
        mine     == [x \in {T} |-> View(w)[T]]
        o        == IF me.result # None
                    THEN UpdateRecord(tables, master, mine, T, put_dict, <<>>, me.result)
                    ELSE InsertRecord(tables, master, mine, T, put_dict, <<>>)
    IN  /\ me.pc = "probed"
        /\ in_transaction' = in_transaction \cup {w}
        /\ IF \E u \in Writers \ {w} : inflight[u].dirty
           THEN /\ inflight' = [inflight EXCEPT ![w] =
                                   [me EXCEPT !.pc = "stopped",
                                              !.err = "OperationalError"]]
                /\ UNCHANGED data
           ELSE /\ RowidsFit(o.data)
                /\ data' = o.data
                /\ inflight' = [inflight EXCEPT ![w] =
                                   [me EXCEPT !.pc = IF o.err = "ok" THEN "idle"
                                                     ELSE "stopped",
                                              !.err = o.err,
                                              !.dirty = TRUE]]
        /\ UNCHANGED <<tables, master, last, step, disk>>

\* commit, between two calls
Commit(w) ==
    /\ inflight[w].pc = "idle"
    /\ w \in in_transaction
    /\ disk' = IF inflight[w].dirty THEN [master |-> master, data |-> data] ELSE disk
    /\ in_transaction' = in_transaction \ {w}
    /\ inflight' = [inflight EXCEPT ![w] = [@ EXCEPT !.dirty = FALSE]]
    /\ UNCHANGED <<tables, master, data, last, step>>

NextRace ==
    \/ \E w \in Writers : Probe(w)
    \/ \E w \in Writers : Write(w)
    \/ \E w \in Writers : Commit(w)

SpecRace == InitRace /\ [][NextRace]_vars

\* the rows of the file and of the pending changes that the selection matches
RaceRows ==
    RowsFor(data[T] \cup disk.data[T], inflight["a"].sel[1].v)

\* C13: while only one of the two writers has issued upserts with the
\* selection, one after another, at most one row matches it.  (The other
\* half, that two writers each probing before the other inserts end with two
\* matching rows, is the state of C13_Witness.)
C13_OneWriterOneRow ==
    (\E w \in Writers : inflight[w].calls = 0) => Cardinality(RaceRows) <= 1

\* C13 witness: each writer made one upsert, neither probe found a row, both
\* inserted and committed, and the file holds two rows that match the
\* selection.
C13_Witness ==
    /\ \A w \in Writers :
          /\ inflight[w].calls = 1 /\ inflight[w].pc = "idle"
          /\ inflight[w].result = None /\ inflight[w].err = "ok"
          /\ ~inflight[w].dirty
    /\ Cardinality(RowsFor(disk.data[T], inflight["a"].sel[1].v)) = 2

----------------------------------------------------------------------------
(* More claims about the object in use (Spec).                             *)

\* s without the items that occur earlier in it
RECURSIVE FirstSeen(_)
FirstSeen(s) ==
    IF s = <<>> THEN <<>>
    ELSE LET front == FirstSeen(SubSeq(s, 1, Len(s) - 1)) IN
         IF s[Len(s)] \in Range(front) THEN front ELSE Append(front, s[Len(s)])

\* C14 (as claimed): the SELECT of a get_all that succeeds lists each column
\* of the projection once, in first-seen order, and every record returned
\* has the distinct columns of the projection as keys, each with the value
\* the column has in a row of the table; without a projection the SELECT
\* lists the declared columns that are no FOREIGN KEY clause, in the order of
\* the declaration.
C14_ProjectionAsClaimed ==
    (last.op = "get_all" /\ last.table = T /\ last.err = "ok")
    => LET cols == last.sql[1].cols IN
       /\ cols = IF last.getl = <<>> THEN <<K, DATA>> ELSE FirstSeen(last.getl)
       /\ \A i \in 1..Len(last.recs) :
             /\ DOMAIN last.recs[i] = Range(cols)
             /\ \E r \in data[T] :
                   \A k \in Range(cols) : last.recs[i][k] = ColValue(r, k)

----------------------------------------------------------------------------
(* The object in use with commit and close: a few calls of each operation, *)
(* and what they leave in the file.  A closed object takes no further      *)
(* call.                                                                   *)

\* commit
CommitCall ==
    /\ last' = [Idle EXCEPT !.op = "commit"]
    /\ disk' = [master |-> master, data |-> data]
    /\ in_transaction' = in_transaction \ {Db}
    /\ UNCHANGED <<tables, master, data>>

\* close: the connection goes, and with it the changes not committed
CloseCall ==
    /\ last' = [Idle EXCEPT !.op = "close"]
    /\ master' = disk.master
    /\ data' = disk.data
    /\ in_transaction' = in_transaction \ {Db}
    /\ UNCHANGED <<tables, disk>>

\* The object is not closed
Open == last.op # "close" /\ UNCHANGED <<step, inflight>>

NextCommit ==
    \/ Open /\ CreateTable(T)
    \/ Open /\ DeleteTable(T)
    \/ Open /\ ResetTable(T)
    \/ Open /\ TableExists(T)
    \/ Open /\ GetAll(T, <<Bare(K, 1)>>, <<>>, SortNone)
    \/ Open /\ Get(T, <<Bare(K, 1)>>, <<>>, SortNone)
    \/ Open /\ \E d \in 1..MaxVal : PutCall(T, <<Bare(K, 1)>>, <<Put(DATA, d)>>, FALSE)
    \/ Open /\ \E d \in 1..MaxVal : PostCall(T, <<Put(DATA, d)>>)
    \/ Open /\ DeleteCall(T, <<Bare(K, 1)>>)
    \/ Open /\ CommitCall
    \/ Open /\ CloseCall

SpecCommit == Init /\ [][NextCommit]_vars

\* C15 (as claimed): the committed state changes only inside commit(): no
\* create_table, delete_table, reset_table, get, get_all, put, post or
\* delete call commits, and close does not, so that after close the file
\* holds what it held at the last commit.
C15_ExplicitCommitAsClaimed ==
    [][last'.op # "commit" => disk' = disk]_vars


----------------------------------------------------------------------------
(* put when the selection selects several rows.                            *)

Sent(c, kind) == {i \in 1..Len(c.sql) : c.sql[i].kind = kind}

\* C16 (as claimed): a valid put without force_new_record on a table where
\* the selection selects two or more rows sends exactly one UPDATE and no
\* INSERT; the UPDATE has the predicate rowid = ? bound to one of the
\* selected rows, put returns that row's identifier, and every other row of
\* the table is as it was.
C16_ManyMatchesAsClaimed ==
    [][(/\ last'.op = "put" /\ last'.table = T /\ ~last'.force
        /\ ~FailsValidation(last')
        /\ T \in master
        /\ Cardinality(Selected(data[T], last'.sel)) >= 2)
       => /\ Cardinality(Sent(last', "UPDATE")) = 1
          /\ Sent(last', "INSERT") = {}
          /\ \E r \in Selected(data[T], last'.sel) :
                /\ last'.ret = r[ROWID]
                /\ \A i \in Sent(last', "UPDATE") :
                      /\ last'.sql[i].where = <<<<ROWID, "=">>>>
                      /\ last'.sql[i].params[Len(last'.sql[i].params)] = r[ROWID]
                /\ data[T] \ {r} \subseteq data'[T]
                /\ Cardinality(data'[T]) = Cardinality(data[T])]_vars


----------------------------------------------------------------------------
(* What put writes.                                                        *)

\* the value a dictionary of Put or of selection entries has for a key
ValueOf(dict, k) == dict[CHOOSE i \in 1..Len(dict) : dict[i].key = k].v
Keys(dict) == {dict[i].key : i \in 1..Len(dict)}

\* C17: in every INSERT and UPDATE a put sends, the columns written are the
\* keys of the mutation together with the keys of the selection, each once;
\* a key of the mutation is written with the mutation's value, and a key
\* that only the selection has is written with the selection's value for
\* it, whatever the operator of the entry.
C17_MutationMerge ==
    [][last'.op = "put" =>
         \A i \in Sent(last', "INSERT") \cup Sent(last', "UPDATE") :
            LET s == last'.sql[i] IN
            /\ Range(s.cols) = Keys(last'.put) \cup Keys(last'.sel)
            /\ Cardinality(Range(s.cols)) = Len(s.cols)
            /\ Len(s.params) >= Len(s.cols)
            /\ \A j \in 1..Len(s.cols) :
                  s.params[j] = IF s.cols[j] \in Keys(last'.put)
                                THEN ValueOf(last'.put, s.cols[j])
                                ELSE ValueOf(last'.sel, s.cols[j])]_vars

\* C17 witness: a put with the selection {k: 1, data: (2, "<")} and the
\* mutation {k: 2} wrote k = 2 and data = 2.
C17_Witness ==
    /\ last.op = "put" /\ last.err = "ok"
    /\ last.sel = <<Bare(K, 1), Pair(DATA, 2, LT)>>
    /\ last.put = <<Put(K, 2)>>
    /\ \E i \in Sent(last, "INSERT") \cup Sent(last, "UPDATE") :
          /\ last.sql[i].cols = <<K, DATA>>
          /\ last.sql[i].params[1] = 2
          /\ last.sql[i].params[2] = 2


----------------------------------------------------------------------------
(* Placeholders and parameters.  A statement has one ? for each predicate  *)
(* of its WHERE clause and, in an INSERT or an UPDATE, one for each        *)
(* column written, the ? of SET coming before that of WHERE rowid=?.       *)

Placeholders(s) ==
    IF s.kind \in {"INSERT", "UPDATE"} THEN Len(s.cols) + Len(s.where)
    ELSE Len(s.where)

\* the value a put writes to a column
Written(c, k) == IF k \in Keys(c.put) THEN ValueOf(c.put, k) ELSE ValueOf(c.sel, k)

\* C18: every SELECT, DELETE, UPDATE and INSERT sent by get_all, get, put,
\* post and delete has as many parameters as placeholders; the predicates
\* of a WHERE built from a selection are on the selection's keys in the
\* selection's order, and the i-th parameter is the value of the i-th
\* entry; the parameters of an INSERT are the values written to its columns
\* in the order of the columns; the parameters of an UPDATE are the values
\* written to the columns of SET in their order, followed by the identifier
\* of a row the selection matched.
C18_ParametersAligned ==
    [][last'.op \in {"get_all", "get", "put", "post", "delete"} =>
         \A i \in 1..Len(last'.sql) :
            LET s == last'.sql[i] IN
            /\ Len(s.params) = Placeholders(s)
            /\ s.kind \in {"SELECT", "DELETE"} =>
                  /\ Len(s.where) = Len(last'.sel)
                  /\ \A j \in 1..Len(s.where) :
                        /\ s.where[j][1] = last'.sel[j].key
                        /\ s.params[j] = last'.sel[j].v
            /\ s.kind \in {"INSERT", "UPDATE"} =>
                  \A j \in 1..Len(s.cols) : s.params[j] = Written(last', s.cols[j])
            /\ s.kind = "INSERT" => s.where = <<>>
            /\ s.kind = "UPDATE" =>
                  /\ s.where = <<<<ROWID, "=">>>>
                  /\ \E r \in Selected(data[T], last'.sel) :
                        s.params[Len(s.params)] = r[ROWID]]_vars

\* C18 witness: put('t', {k: 1, data: (2, "<")}, {k: 2}) has sent
\* SELECT rowid FROM t WHERE k = ? AND data < ? with (1, 2) and
\* UPDATE t SET k = ?, data = ? WHERE rowid=? with (2, 2, r), and returned r.
C18_Witness ==
    /\ last.op = "put" /\ last.err = "ok" /\ Len(last.sql) = 2
    /\ last.sql[1].kind = "SELECT"
    /\ last.sql[1].where = <<<<K, EQ>>, <<DATA, LT>>>>
    /\ last.sql[1].params = <<1, 2>>
    /\ last.sql[2].kind = "UPDATE"
    /\ last.sql[2].cols = <<K, DATA>>
    /\ last.sql[2].params = <<2, 2, last.ret>>


----------------------------------------------------------------------------
(* The row a put returns.                                                  *)

Equalities(sel) == \A i \in 1..Len(sel) : ~sel[i].tup \/ sel[i].c = EQ

\* C19 (as claimed): when a put without force_new_record, with a selection
\* of bare values and equalities, returns r without error, the table has a
\* row with the identifier r that satisfies every predicate of the
\* selection, and the same put made again at once adds no row.
C19_ReturnedRowAsClaimed ==
    [][(/\ last'.op = "put" /\ last'.table = T /\ ~last'.force
        /\ last'.err = "ok" /\ Equalities(last'.sel))
       => /\ \E r \in Selected(data'[T], last'.sel) : r[ROWID] = last'.ret
          /\ \A o \in put(tables, master', data', T, last'.sel, last'.put, FALSE) :
                /\ o.err = "ok"
                /\ Cardinality(o.data[T]) = Cardinality(data'[T])]_vars

====
